---- MODULE Spec2Model ----
(***************************************************************************)
(* Model of kv_store.py: an append-only, log-backed key-value store        *)
(* (AppendOnlyKV) with a chained hash table index (SimpleHashMap) and the  *)
(* command loop (main).                                                    *)
(*                                                                         *)
(* Strings are sequences of one-character strings, so that formatting a    *)
(* record, splitting a file into lines and splitting a line into fields    *)
(* are computed character by character, as the code does.                  *)
(***************************************************************************)
EXTENDS Integers, Sequences, FiniteSets, TLC

----------------------------------------------------------------------------
(* Bounds of the model *)

\* longest log file the store appends to, in characters (a record
\* `SET k v\n` is 8 characters)
MaxFileLen == 16
\* number of lines of the log files given to replay alone
MaxLines == 3
\* number of environment faults (I/O errors, crashes) in one behaviour
MaxFaults == 1

\* lines of standard input of a scripted run
MaxScript == 3
\* largest initial_capacity, and largest hash seed, of the hash map taken alone
MaxCapacity == 4
MaxSeed == 3

----------------------------------------------------------------------------
(* Characters and strings *)

Keys == {<<"a">>, <<"b">>}
Vals == {<<"1">>, <<"2">>}

\* str.isspace() for the characters of the model
IsSpace(c) == c \in {" ", "\n", "\t"}

Min(x, y) == IF x <= y THEN x ELSE y

Prefix(s, n) == SubSeq(s, 1, n)
Suffix(s, n) == SubSeq(s, n + 1, Len(s))
IsPrefix(s, t) == Len(s) <= Len(t) /\ SubSeq(t, 1, Len(s)) = s

valid_token(tok) == Len(tok) > 0 /\ \A i \in 1..Len(tok) : ~IsSpace(tok[i])

\* str.upper() on one character
UpperChar(c) ==
    CASE c = "s" -> "S"
      [] c = "e" -> "E"
      [] c = "t" -> "T"
      [] c = "g" -> "G"
      [] c = "x" -> "X"
      [] c = "i" -> "I"
      [] OTHER -> c

Upper(s) == [i \in 1..Len(s) |-> UpperChar(s[i])]

\* str.strip(): drop leading and trailing whitespace
RECURSIVE LStrip(_)
LStrip(s) == IF s # <<>> /\ IsSpace(Head(s)) THEN LStrip(Tail(s)) ELSE s

RECURSIVE RStrip(_)
RStrip(s) ==
    IF s # <<>> /\ IsSpace(s[Len(s)]) THEN RStrip(SubSeq(s, 1, Len(s) - 1)) ELSE s

Strip(s) == RStrip(LStrip(s))

\* str.split() with no argument: the maximal runs of non-whitespace characters
RECURSIVE SplitFrom(_, _, _)
SplitFrom(s, cur, acc) ==
    IF s = <<>>
    THEN IF cur = <<>> THEN acc ELSE Append(acc, cur)
    ELSE IF IsSpace(Head(s))
         THEN SplitFrom(Tail(s), <<>>, IF cur = <<>> THEN acc ELSE Append(acc, cur))
         ELSE SplitFrom(Tail(s), Append(cur, Head(s)), acc)

Split(s) == SplitFrom(s, <<>>, <<>>)

\* iteration over a text file: lines end at "\n" (kept); a last line without
\* a newline is yielded when it is not empty
RECURSIVE LinesFrom(_, _, _)
LinesFrom(s, cur, acc) ==
    IF s = <<>>
    THEN IF cur = <<>> THEN acc ELSE Append(acc, cur)
    ELSE IF Head(s) = "\n"
         THEN LinesFrom(Tail(s), <<>>, Append(acc, Append(cur, "\n")))
         ELSE LinesFrom(Tail(s), Append(cur, Head(s)), acc)

FileLines(s) == LinesFrom(s, <<>>, <<>>)

TagSET == <<"S", "E", "T">>
TagGET == <<"G", "E", "T">>
TagEXIT == <<"E", "X", "I", "T">>

\* f"SET {key} {val}\n"
Record(key, val) == TagSET \o <<" ">> \o key \o <<" ">> \o val \o <<"\n">>

----------------------------------------------------------------------------
(* SimpleHashMap *)

DefaultCapacity == 1024
HashWidth == 2 ^ 16
Seeds == {0, 1}

CharCode(c) ==
    CASE c = "a" -> 97 [] c = "b" -> 98 [] c = "1" -> 49 [] c = "2" -> 50
      [] c = "S" -> 83 [] c = "E" -> 69 [] c = "T" -> 84 [] c = "G" -> 71
      [] c = "X" -> 88 [] c = "I" -> 73
      [] c = "s" -> 115 [] c = "e" -> 101 [] c = "t" -> 116 [] c = "g" -> 103
      [] c = "x" -> 120 [] c = "i" -> 105
      [] OTHER -> 32

\* hash(key): a deterministic function of the string and of the per-process
\* hash seed.  Seed 0 sends every key to bucket 0 (all keys collide); seed 1
\* separates the one-character keys.
RECURSIVE PolyHash(_, _)
PolyHash(key, h) ==
    IF key = <<>> THEN h
    ELSE PolyHash(Tail(key), (h * 31 + CharCode(Head(key))) % HashWidth)

hash(seed, key) == (seed * PolyHash(key, 0)) % HashWidth

\* x & y on non-negative integers
RECURSIVE BitAnd(_, _)
BitAnd(x, y) ==
    IF x = 0 \/ y = 0 THEN 0
    ELSE ((x % 2) * (y % 2)) + 2 * BitAnd(x \div 2, y \div 2)

\* the loop `cap = 1; while cap < initial_capacity: cap <<= 1`
RECURSIVE RoundUpPow2(_, _)
RoundUpPow2(cap, initial_capacity) ==
    IF cap < initial_capacity THEN RoundUpPow2(cap * 2, initial_capacity) ELSE cap

\* The bucket list [[] for _ in range(cap)] is held as its length, cap, and
\* the function from the indices of the non-empty buckets to their pairs.
SimpleHashMap_init(initial_capacity) ==
    [cap |-> RoundUpPow2(1, initial_capacity), buckets |-> <<>>, size |-> 0]

\* self._buckets[i]
Bucket(m, i) == IF i \in DOMAIN m.buckets THEN m.buckets[i] ELSE <<>>

\* self._buckets[i] = b
WithBucket(m, i, b) ==
    [j \in (DOMAIN m.buckets) \cup {i} |-> IF j = i THEN b ELSE m.buckets[j]]

SimpleHashMap_index(m, sd, key) == BitAnd(hash(sd, key), m.cap - 1)

NONE == <<"None">>

\* a lookup that takes the first pair of the bucket, whatever its key
BucketFind_first(bucket, key) ==
    IF bucket = <<>> THEN NONE ELSE Head(bucket)[2]

\* first pair of the bucket whose key matches, else None
RECURSIVE BucketFind(_, _)
BucketFind(bucket, key) ==
    IF bucket = <<>> THEN NONE
    ELSE IF Head(bucket)[1] = key THEN Head(bucket)[2]
    ELSE BucketFind(Tail(bucket), key)

SimpleHashMap_get(m, sd, key) ==
    BucketFind(Bucket(m, SimpleHashMap_index(m, sd, key)), key)

\* index of the first pair of the bucket whose key matches, else 0
RECURSIVE BucketPos(_, _, _)
BucketPos(bucket, key, i) ==
    IF i > Len(bucket) THEN 0
    ELSE IF bucket[i][1] = key THEN i
    ELSE BucketPos(bucket, key, i + 1)

\* a set that never overwrites: the pair is always appended
SimpleHashMap_set_append(m, sd, key, value) ==
    LET idx == SimpleHashMap_index(m, sd, key)
    IN  [m EXCEPT !.buckets = WithBucket(m, idx, Append(Bucket(m, idx), <<key, value>>)),
                  !.size = @ + 1]

\* a set that overwrites by removing the pair and appending the new one
SimpleHashMap_set_moveToEnd(m, sd, key, value) ==
    LET idx == SimpleHashMap_index(m, sd, key)
        bucket == Bucket(m, idx)
        i == BucketPos(bucket, key, 1)
    IN  IF i # 0
        THEN [m EXCEPT !.buckets =
                WithBucket(m, idx, Append(SubSeq(bucket, 1, i - 1)
                                            \o SubSeq(bucket, i + 1, Len(bucket)),
                                          <<key, value>>))]
        ELSE [m EXCEPT !.buckets = WithBucket(m, idx, Append(bucket, <<key, value>>)),
                       !.size = @ + 1]

SimpleHashMap_set(m, sd, key, value) ==
    LET idx == SimpleHashMap_index(m, sd, key)
        bucket == Bucket(m, idx)
        i == BucketPos(bucket, key, 1)
    IN  IF i # 0
        THEN [m EXCEPT !.buckets = WithBucket(m, idx, [bucket EXCEPT ![i] = <<key, value>>])]
        ELSE [m EXCEPT !.buckets = WithBucket(m, idx, Append(bucket, <<key, value>>)),
                       !.size = @ + 1]

\* the (key, value) pairs held by a hash map
IndexPairs(m) ==
    UNION {{m.buckets[i][j] : j \in 1..Len(m.buckets[i])} : i \in DOMAIN m.buckets}

\* what get reports for every key the map stores
StoredKeys(m) == {p[1] : p \in IndexPairs(m)}
IndexGets(m, sd) == {<<k, SimpleHashMap_get(m, sd, k)>> : k \in StoredKeys(m)}

----------------------------------------------------------------------------
(* State *)

VARIABLES
    file,      \* content of the log file as the operating system holds it
    synced,    \* length of the prefix of file that is on stable storage
    buf,       \* characters written to the handle and not yet flushed
    fh,        \* self._fh is an open handle (FALSE: None)
    index,     \* self._index, the SimpleHashMap
    seed,      \* hash seed of the running process
    st,        \* "Unopened" (no store object), "Ready", "Closed"
    res,       \* last operation: its name, how it ended, its key, its value
    out,       \* lines the command loop printed in its last step
    acked,     \* per key, the value of the last successful set of this store
    sessOK,    \* no set of this store has failed
    snap,      \* what get reported for every stored key at the last close
    faults,    \* environment faults so far
    stdin,     \* the lines of standard input of a scripted run of main
    pos,       \* how many lines of stdin the command loop has read
    stdout,    \* the lines a scripted run of main has printed so far
    pc         \* where a set executed step by step stands, its key and value

vars == <<file, synced, buf, fh, index, seed, st, res, out, acked, sessOK,
          snap, faults, stdin, pos, stdout, pc>>

\* the variables of a scripted run of main
script == <<stdin, pos, stdout>>

Idle == [at |-> "idle", key |-> NONE, val |-> NONE]

ERR == <<"E", "R", "R">>

EmptyIndex == SimpleHashMap_init(DefaultCapacity)

Result(op, status, key, val) == [op |-> op, status |-> status, key |-> key, val |-> val]

NoSnap == [valid |-> FALSE, gets |-> {}]

NoAck == [k \in Keys |-> NONE]

Ack(a, key, val) == IF key \in Keys THEN [a EXCEPT ![key] = val] ELSE a

----------------------------------------------------------------------------
(* AppendOnlyKV *)

\* a replay that takes every line of three fields, whatever its tag
ReplayLine_anyTag(m, sd, line) ==
    LET parts == Split(Strip(line))
    IN  IF Len(parts) = 3 /\ valid_token(parts[2]) /\ valid_token(parts[3])
        THEN SimpleHashMap_set(m, sd, parts[2], parts[3])
        ELSE m

\* one line of the replay loop
ReplayLine(m, sd, line) ==
    LET parts == Split(Strip(line))
    IN  IF Len(parts) = 3 /\ parts[1] = TagSET
        THEN IF valid_token(parts[2]) /\ valid_token(parts[3])
             THEN SimpleHashMap_set(m, sd, parts[2], parts[3])
             ELSE m
        ELSE m

RECURSIVE ReplayLines(_, _, _)
ReplayLines(m, sd, lines) ==
    IF lines = <<>> THEN m
    ELSE ReplayLines(ReplayLine(m, sd, Head(lines)), sd, Tail(lines))

\* _open_and_replay on a file of content f
Replay(sd, f) == ReplayLines(EmptyIndex, sd, FileLines(f))

\* AppendOnlyKV.get
AppendOnlyKV_get(key) == SimpleHashMap_get(index, seed, key)

\* a set that returns silently when the store is closed
AppendOnlyKV_set_silent(key, val, nw, syncOk) ==
    IF ~fh
    THEN [status |-> "ok", file |-> file, buf |-> buf,
          synced |-> synced, index |-> index]
    ELSE LET b1 == buf \o Record(key, val)
             w == Min(nw, Len(b1))
             f1 == file \o Prefix(b1, w)
         IN  IF w < Len(b1)
             THEN [status |-> "DataFileWriteError", file |-> f1,
                   buf |-> Suffix(b1, w), synced |-> synced, index |-> index]
             ELSE IF ~syncOk
             THEN [status |-> "DataFileWriteError", file |-> f1,
                   buf |-> <<>>, synced |-> synced, index |-> index]
             ELSE [status |-> "ok", file |-> f1, buf |-> <<>>,
                   synced |-> Len(f1),
                   index |-> SimpleHashMap_set(index, seed, key, val)]

\* AppendOnlyKV.set.  nw: how many of the buffered characters the operating
\* system accepts in flush() (all of them: the flush succeeds); syncOk: fsync
\* succeeds.  A flush that fails keeps the characters it did not write in the
\* handle's buffer.
AppendOnlyKV_set(key, val, nw, syncOk) ==
    IF ~fh
    THEN [status |-> "RuntimeError", file |-> file, buf |-> buf,
          synced |-> synced, index |-> index]
    ELSE LET b1 == buf \o Record(key, val)
             w == Min(nw, Len(b1))
             f1 == file \o Prefix(b1, w)
         IN  IF w < Len(b1)
             THEN [status |-> "DataFileWriteError", file |-> f1,
                   buf |-> Suffix(b1, w), synced |-> synced, index |-> index]
             ELSE IF ~syncOk
             THEN [status |-> "DataFileWriteError", file |-> f1,
                   buf |-> <<>>, synced |-> synced, index |-> index]
             ELSE [status |-> "ok", file |-> f1, buf |-> <<>>,
                   synced |-> Len(f1),
                   index |-> SimpleHashMap_set(index, seed, key, val)]

\* a close that ends the log with an empty line
AppendOnlyKV_close_mark(nw, gw, syncOk, closeOk) ==
    IF ~fh
    THEN [status |-> "ok", file |-> file, synced |-> synced]
    ELSE [status |-> "ok", file |-> file \o buf \o <<"\n">>,
          synced |-> Len(file) + Len(buf) + 1]

\* AppendOnlyKV.close.  nw, syncOk as in set; closeOk: the handle's close()
\* succeeds.  When flush() raises, the handle is dropped without close() and
\* its finalizer flushes once more: gw of the remaining characters reach the
\* file.
AppendOnlyKV_close(nw, gw, syncOk, closeOk) ==
    IF ~fh
    THEN [status |-> "ok", file |-> file, synced |-> synced]
    ELSE LET w == Min(nw, Len(buf))
             f1 == file \o Prefix(buf, w)
             rest == Suffix(buf, w)
         IN  IF w < Len(buf)
             THEN [status |-> "DataFileCloseError",
                   file |-> f1 \o Prefix(rest, Min(gw, Len(rest))),
                   synced |-> synced]
             ELSE IF ~syncOk
             THEN [status |-> "DataFileCloseError", file |-> f1, synced |-> synced]
             ELSE IF ~closeOk
             THEN [status |-> "DataFileCloseError", file |-> f1, synced |-> Len(f1)]
             ELSE [status |-> "ok", file |-> f1, synced |-> Len(f1)]

----------------------------------------------------------------------------
(* Inputs *)

\* the raw lines the command loop reads from standard input
InputLines == {
    <<"S","E","T"," ","a"," ","1","\n">>,
    <<"S","E","T"," ","a"," ","2","\n">>,
    <<"s","e","t"," ","b"," ","2","\n">>,
    <<" ","S","E","T","\t","b"," "," ","1"," ","\n">>,
    <<"G","E","T"," ","a","\n">>,
    <<"G","E","T"," ","b","\n">>,
    <<"S","E","T"," ","a","\n">>,
    <<"S","E","T"," ","a"," ","b"," ","1","\n">>,
    <<"G","E","T","\n">>,
    <<"G","E","T"," ","a"," ","b","\n">>,
    <<"T","E","S","T"," ","a","\n">>,
    <<" ","\t","\n">>,
    <<"E","X","I","T","\n">>,
    <<"e","x","i","t"," ","a","\n">>
}

\* raw.strip().split() of every input line
Fields == [raw \in InputLines |-> Split(Strip(raw))]

\* the outcomes of the flush and of the fsync of a set
SetIO(key, val) ==
    IF fh
    THEN {<<nw, TRUE>> : nw \in 0..Len(buf \o Record(key, val))}
           \cup {<<Len(buf \o Record(key, val)), FALSE>>}
    ELSE {<<0, TRUE>>}

\* the outcomes of the flush, the finalizer's flush, the fsync and the close
\* of a close
CloseIO ==
    IF fh
    THEN {<<nw, gw, TRUE, TRUE>> : nw \in 0..(Len(buf) - 1), gw \in 0..Len(buf)}
           \cup {<<Len(buf), 0, TRUE, TRUE>>, <<Len(buf), 0, FALSE, TRUE>>,
                 <<Len(buf), 0, TRUE, FALSE>>}
    ELSE {<<0, 0, TRUE, TRUE>>}

\* the bounded file has room for the record
Room(key, val) == fh => Len(file) + Len(buf) + Len(Record(key, val)) <= MaxFileLen

----------------------------------------------------------------------------
(* Initial state: an empty log file, no process *)

Init ==
    /\ file = <<>>
    /\ synced = 0
    /\ buf = <<>>
    /\ fh = FALSE
    /\ index = EmptyIndex
    /\ seed = 0
    /\ st = "Unopened"
    /\ res = Result("none", "ok", NONE, NONE)
    /\ out = <<>>
    /\ acked = NoAck
    /\ sessOK = TRUE
    /\ snap = NoSnap
    /\ faults = 0
    /\ stdin = <<>>
    /\ pos = 0
    /\ stdout = <<>>
    /\ pc = Idle

----------------------------------------------------------------------------
(* Operations of the store, called directly *)

\* AppendOnlyKV(path): __init__ and _open_and_replay.  A new process draws
\* its hash seed; a store opened after close() in the same process keeps it.
DoOpen(sd, ok) ==
    /\ st \in {"Unopened", "Closed"}
    /\ st = "Closed" => sd = seed
    /\ ~ok => faults < MaxFaults
    /\ IF ok
       THEN /\ seed' = sd
            /\ index' = Replay(sd, file)
            /\ fh' = TRUE
            /\ st' = "Ready"
            /\ acked' = NoAck
            /\ sessOK' = TRUE
            /\ UNCHANGED <<file, synced, buf, snap, faults>>
       ELSE /\ faults' = faults + 1
            /\ UNCHANGED <<file, synced, buf, fh, index, seed, st, acked, sessOK, snap>>

Open(sd, ok) ==
    /\ DoOpen(sd, ok)
    /\ res' = Result("open", IF ok THEN "ok" ELSE "DataFileOpenError", NONE, NONE)
    /\ out' = <<>>
    /\ UNCHANGED <<stdin, pos, stdout, pc>>

\* the effect of one call of AppendOnlyKV.set on the state
DoSet(key, val, nw, syncOk) ==
    LET r == AppendOnlyKV_set(key, val, nw, syncOk)
    IN  /\ r.status = "DataFileWriteError" => faults < MaxFaults
        /\ file' = r.file
        /\ buf' = r.buf
        /\ synced' = r.synced
        /\ index' = r.index
        /\ faults' = IF r.status = "DataFileWriteError" THEN faults + 1 ELSE faults
        /\ acked' = IF r.status = "ok" THEN Ack(acked, key, val) ELSE acked
        /\ UNCHANGED <<fh, seed, st>>

Set(key, val, nw, syncOk) ==
    /\ st \in {"Ready", "Closed"}
    /\ Room(key, val)
    /\ DoSet(key, val, nw, syncOk)
    /\ LET status == AppendOnlyKV_set(key, val, nw, syncOk).status
       IN  /\ res' = Result("set", status, NONE, NONE)
           /\ sessOK' = (sessOK /\ status # "DataFileWriteError")
    /\ snap' = IF st = "Ready" THEN NoSnap ELSE snap
    /\ out' = <<>>
    /\ UNCHANGED <<stdin, pos, stdout, pc>>

Get(key) ==
    /\ st \in {"Ready", "Closed"}
    /\ res' = Result("get", "ok", key, AppendOnlyKV_get(key))
    /\ out' = <<>>
    /\ snap' = IF st = "Ready" THEN NoSnap ELSE snap
    /\ UNCHANGED <<file, synced, buf, fh, index, seed, st, acked, sessOK, faults>>
    /\ UNCHANGED <<stdin, pos, stdout, pc>>

\* a close that keeps the handle when it raises
DoClose_keepsHandle(nw, gw, syncOk, closeOk) ==
    LET r == AppendOnlyKV_close(nw, gw, syncOk, closeOk)
    IN  /\ r.status = "DataFileCloseError" => faults < MaxFaults
        /\ file' = r.file
        /\ synced' = r.synced
        /\ buf' = <<>>
        /\ fh' = (r.status = "DataFileCloseError")
        /\ faults' = IF r.status = "DataFileCloseError" THEN faults + 1 ELSE faults
        /\ UNCHANGED seed

\* the effect of one call of AppendOnlyKV.close on the state
DoClose(nw, gw, syncOk, closeOk) ==
    LET r == AppendOnlyKV_close(nw, gw, syncOk, closeOk)
    IN  /\ r.status = "DataFileCloseError" => faults < MaxFaults
        /\ file' = r.file
        /\ synced' = r.synced
        /\ buf' = <<>>
        /\ fh' = FALSE
        /\ faults' = IF r.status = "DataFileCloseError" THEN faults + 1 ELSE faults
        /\ UNCHANGED seed

Close(nw, gw, syncOk, closeOk) ==
    /\ st \in {"Ready", "Closed"}
    /\ DoClose(nw, gw, syncOk, closeOk)
    /\ st' = "Closed"
    /\ res' = Result("close", AppendOnlyKV_close(nw, gw, syncOk, closeOk).status, NONE, NONE)
    /\ snap' = IF fh THEN [valid |-> sessOK, gets |-> IndexGets(index, seed)] ELSE snap
    /\ out' = <<>>
    /\ UNCHANGED <<index, acked, sessOK>>
    /\ UNCHANGED <<stdin, pos, stdout, pc>>

----------------------------------------------------------------------------
(* The command loop of main *)

\* the process ends: the store object and its index are discarded
ProcessEnds ==
    /\ st' = "Unopened"
    /\ fh' = FALSE
    /\ index' = EmptyIndex
    /\ acked' = NoAck
    /\ sessOK' = TRUE

\* `with AppendOnlyKV(DATA_FILE) as db`: an open error is caught by main,
\* printed as ERR, and the process ends
MainStart(sd, ok) ==
    /\ st = "Unopened"
    /\ DoOpen(sd, ok)
    /\ res' = Result("main_start", IF ok THEN "ok" ELSE "DataFileOpenError", NONE, NONE)
    /\ out' = IF ok THEN <<>> ELSE <<ERR>>
    /\ UNCHANGED pc

\* a SET command that takes any three or more fields
SetArgsOk_atLeast3(parts) ==
    Len(parts) >= 3 /\ valid_token(parts[2]) /\ valid_token(parts[3])

\* the test of the arguments of a SET command
SetArgsOk(parts) ==
    Len(parts) = 3 /\ valid_token(parts[2]) /\ valid_token(parts[3])

\* a GET command that accepts no argument list
GetArgsOk_never(parts) == FALSE

\* the test of the arguments of a GET command
GetArgsOk(parts) == Len(parts) = 2 /\ valid_token(parts[2])

\* one iteration of `for raw in sys.stdin` that does not leave the loop
MainCommand(raw, nw, syncOk) ==
    /\ st = "Ready"
    /\ UNCHANGED <<sessOK, snap, pc>>
    /\ LET parts == Fields[raw]
           cmd == Upper(parts[1])
           quiet == UNCHANGED <<file, synced, buf, fh, index, seed, st, faults, acked>>
       IN  IF parts = <<>>
           THEN /\ quiet
                /\ out' = <<>>
                /\ res' = Result("main_blank", "ok", NONE, NONE)
           ELSE /\ cmd # TagEXIT
                /\ IF cmd = TagSET
                   THEN IF SetArgsOk(parts)
                        THEN LET status == AppendOnlyKV_set(parts[2], parts[3], nw, syncOk).status
                             IN  /\ Room(parts[2], parts[3])
                                 /\ DoSet(parts[2], parts[3], nw, syncOk)
                                 /\ out' = IF status \in {"DataFileWriteError", "RuntimeError"}
                                           THEN <<ERR>> ELSE <<>>
                                 /\ res' = Result("main_set", status, NONE, NONE)
                        ELSE /\ quiet
                             /\ out' = <<ERR>>
                             /\ res' = Result("main_set", "invalid", NONE, NONE)
                   ELSE IF cmd = TagGET
                   THEN IF GetArgsOk(parts)
                        THEN LET val == AppendOnlyKV_get(parts[2])
                             IN  /\ quiet
                                 /\ out' = <<IF val = NONE THEN <<>> ELSE val>>
                                 /\ res' = Result("main_get", "ok", parts[2], val)
                        ELSE /\ quiet
                             /\ out' = <<ERR>>
                             /\ res' = Result("main_get", "invalid", NONE, NONE)
                   ELSE /\ quiet
                        /\ out' = <<ERR>>
                        /\ res' = Result("main_unknown", "invalid", NONE, NONE)

\* leaving the `with` block without closing the store
MainLeave_noClose(nw, gw, syncOk, closeOk) ==
    /\ out' = <<>>
    /\ res' = Result("main_exit", "ok", NONE, NONE)
    /\ st' = "Unopened"
    /\ index' = EmptyIndex
    /\ UNCHANGED <<file, synced, buf, fh, seed, faults, acked, sessOK, snap, pc>>

\* leaving the `with` block: __exit__ closes the store, a close error is
\* caught by main and printed as ERR, and the process ends
MainLeave(nw, gw, syncOk, closeOk) ==
    LET status == AppendOnlyKV_close(nw, gw, syncOk, closeOk).status
    IN  /\ DoClose(nw, gw, syncOk, closeOk)
        /\ out' = IF status = "DataFileCloseError" THEN <<ERR>> ELSE <<>>
        /\ res' = Result("main_exit", status, NONE, NONE)
        /\ st' = "Unopened"
        /\ index' = EmptyIndex
        /\ UNCHANGED <<acked, sessOK, snap, pc>>

\* the EXIT command
MainExit(raw, nw, gw, syncOk, closeOk) ==
    /\ st = "Ready"
    /\ Fields[raw] # <<>>
    /\ Upper(Fields[raw][1]) = TagEXIT
    /\ MainLeave(nw, gw, syncOk, closeOk)

\* end of input
MainEOF(nw, gw, syncOk, closeOk) ==
    /\ st = "Ready"
    /\ MainLeave(nw, gw, syncOk, closeOk)

\* an error raised inside the loop (reading a line of standard input that
\* does not decode raises a ValueError): __exit__ closes the store, main
\* catches the error, or the close error that replaced it, and prints ERR
MainError(nw, gw, syncOk, closeOk) ==
    LET status == AppendOnlyKV_close(nw, gw, syncOk, closeOk).status
    IN  /\ st = "Ready"
        /\ DoClose(nw, gw, syncOk, closeOk)
        /\ out' = <<ERR>>
        /\ res' = Result("main_exit", IF status = "ok" THEN "ValueError" ELSE status,
                         NONE, NONE)
        /\ st' = "Unopened"
        /\ index' = EmptyIndex
        /\ UNCHANGED <<acked, sessOK, snap, pc>>

----------------------------------------------------------------------------
(* The environment *)

\* the process that closed its store ends
Exit ==
    /\ st = "Closed"
    /\ ProcessEnds
    /\ res' = Result("exit", "ok", NONE, NONE)
    /\ out' = <<>>
    /\ UNCHANGED <<file, synced, buf, seed, snap, faults>>
    /\ UNCHANGED <<stdin, pos, stdout, pc>>

\* the process is killed between two operations: what it had buffered is lost
Kill ==
    /\ st = "Ready"
    /\ faults < MaxFaults
    /\ ProcessEnds
    /\ buf' = <<>>
    /\ snap' = NoSnap
    /\ faults' = faults + 1
    /\ res' = Result("crash", "killed", NONE, NONE)
    /\ out' = <<>>
    /\ UNCHANGED <<file, synced, seed>>
    /\ UNCHANGED <<stdin, pos, stdout, pc>>

\* the process is killed inside set, after the operating system took n of the
\* buffered characters and before fsync returned
CrashInSet(key, val, n) ==
    /\ st = "Ready"
    /\ faults < MaxFaults
    /\ Room(key, val)
    /\ file' = file \o Prefix(buf \o Record(key, val), n)
    /\ UNCHANGED synced
    /\ ProcessEnds
    /\ buf' = <<>>
    /\ snap' = NoSnap
    /\ faults' = faults + 1
    /\ res' = Result("crash", "killed", NONE, NONE)
    /\ out' = <<>>
    /\ UNCHANGED seed
    /\ UNCHANGED <<stdin, pos, stdout, pc>>

\* the machine loses power: of the file, the synced prefix and n - synced more
\* characters survive
PowerFail(n) ==
    /\ faults < MaxFaults
    /\ st # "Unopened" \/ n < Len(file)
    /\ file' = Prefix(file, n)
    /\ synced' = n
    /\ ProcessEnds
    /\ buf' = <<>>
    /\ snap' = NoSnap
    /\ faults' = faults + 1
    /\ res' = Result("crash", "power", NONE, NONE)
    /\ out' = <<>>
    /\ UNCHANGED seed
    /\ UNCHANGED <<stdin, pos, stdout, pc>>

----------------------------------------------------------------------------
(* Specifications *)

\* the lines of a SET command that reaches the store
IsStoreSet(raw) ==
    /\ Fields[raw] # <<>>
    /\ Upper(Fields[raw][1]) = TagSET
    /\ SetArgsOk(Fields[raw])

SetLines == {raw \in InputLines : IsStoreSet(raw)}

\* the I/O outcomes a command line can meet: those of a set for a line that
\* reaches AppendOnlyKV.set, none for the other lines
LineIO(raw) ==
    IF raw \in SetLines
    THEN SetIO(Fields[raw][2], Fields[raw][3])
    ELSE {<<0, TRUE>>}

Faults ==
    \/ Kill
    \/ \E k \in Keys, v \in Vals :
          \E n \in 1..Len(buf \o Record(k, v)) : CrashInSet(k, v, n)
    \/ \E n \in synced..Len(file) : PowerFail(n)

\* the store driven through its methods
Next ==
    \/ \E sd \in Seeds, ok \in BOOLEAN : Open(sd, ok)
    \/ \E k \in Keys, v \in Vals : \E io \in SetIO(k, v) : Set(k, v, io[1], io[2])
    \/ \E k \in Keys : Get(k)
    \/ \E io \in CloseIO : Close(io[1], io[2], io[3], io[4])
    \/ Exit
    \/ Faults

Spec == Init /\ [][Next]_vars

\* the store driven through the command loop
NextMain ==
    \/ \E sd \in Seeds, ok \in BOOLEAN : MainStart(sd, ok) /\ UNCHANGED script
    \/ \E raw \in InputLines : \E io \in LineIO(raw) :
          MainCommand(raw, io[1], io[2]) /\ UNCHANGED script
    \/ \E raw \in InputLines, io \in CloseIO :
          MainExit(raw, io[1], io[2], io[3], io[4]) /\ UNCHANGED script
    \/ \E io \in CloseIO : MainEOF(io[1], io[2], io[3], io[4]) /\ UNCHANGED script
    \/ \E io \in CloseIO : MainError(io[1], io[2], io[3], io[4]) /\ UNCHANGED script
    \/ Faults

SpecMain == Init /\ [][NextMain]_vars

\* AppendOnlyKV.set executed statement by statement.  pc.at is the statement
\* last completed: "written" (write), "flushed" (flush), "synced" (os.fsync),
\* "indexed" (self._index.set); "idle" between calls.

\* the call and `self._fh.write(...)`, which puts the record in the handle's
\* buffer; on a store without a handle the call raises RuntimeError
SetCall(key, val) ==
    /\ pc = Idle
    /\ st \in {"Ready", "Closed"}
    /\ Room(key, val)
    /\ IF ~fh
       THEN /\ res' = Result("set", "RuntimeError", NONE, NONE)
            /\ UNCHANGED <<buf, pc, snap>>
       ELSE /\ buf' = buf \o Record(key, val)
            /\ pc' = [at |-> "written", key |-> key, val |-> val]
            /\ res' = Result("set", "running", NONE, NONE)
            /\ snap' = NoSnap
    /\ out' = <<>>
    /\ UNCHANGED <<file, synced, fh, index, seed, st, acked, sessOK, faults, script>>

\* the set raises DataFileWriteError
SetRaises ==
    /\ faults < MaxFaults
    /\ faults' = faults + 1
    /\ pc' = Idle
    /\ res' = Result("set", "DataFileWriteError", NONE, NONE)
    /\ sessOK' = FALSE

\* `self._fh.flush()`: the operating system takes nw of the buffered
\* characters; when it does not take them all, flush raises
SetFlush(nw) ==
    /\ pc.at = "written"
    /\ file' = file \o Prefix(buf, nw)
    /\ buf' = Suffix(buf, nw)
    /\ IF nw < Len(buf)
       THEN SetRaises
       ELSE /\ pc' = [pc EXCEPT !.at = "flushed"]
            /\ UNCHANGED <<res, sessOK, faults>>
    /\ out' = <<>>
    /\ UNCHANGED <<synced, fh, index, seed, st, acked, snap, script>>

\* `os.fsync(self._fh.fileno())`
SetSync(syncOk) ==
    /\ pc.at = "flushed"
    /\ IF syncOk
       THEN /\ synced' = Len(file)
            /\ pc' = [pc EXCEPT !.at = "synced"]
            /\ UNCHANGED <<res, sessOK, faults>>
       ELSE /\ SetRaises
            /\ UNCHANGED synced
    /\ out' = <<>>
    /\ UNCHANGED <<file, buf, fh, index, seed, st, acked, snap, script>>

\* an index update placed before the fsync
SetIndex_early ==
    /\ pc.at = "flushed"
    /\ index' = SimpleHashMap_set(index, seed, pc.key, pc.val)
    /\ pc' = [pc EXCEPT !.at = "indexed"]
    /\ out' = <<>>
    /\ UNCHANGED <<file, synced, buf, fh, seed, st, res, acked, sessOK, snap, faults,
                   script>>

\* `self._index.set(key, val)`
SetIndex ==
    /\ pc.at = "synced"
    /\ index' = SimpleHashMap_set(index, seed, pc.key, pc.val)
    /\ pc' = [pc EXCEPT !.at = "indexed"]
    /\ out' = <<>>
    /\ UNCHANGED <<file, synced, buf, fh, seed, st, res, acked, sessOK, snap, faults,
                   script>>

\* the set returns to its caller
SetReturn ==
    /\ pc.at = "indexed"
    /\ res' = Result("set", "ok", NONE, NONE)
    /\ acked' = Ack(acked, pc.key, pc.val)
    /\ pc' = Idle
    /\ out' = <<>>
    /\ UNCHANGED <<file, synced, buf, fh, index, seed, st, sessOK, snap, faults, script>>

\* the process is killed inside set: what the handle had buffered is lost
SetKilled ==
    /\ pc # Idle
    /\ faults < MaxFaults
    /\ ProcessEnds
    /\ buf' = <<>>
    /\ pc' = Idle
    /\ snap' = NoSnap
    /\ faults' = faults + 1
    /\ res' = Result("crash", "killed", NONE, NONE)
    /\ out' = <<>>
    /\ UNCHANGED <<file, synced, seed, script>>

NextSteps ==
    \/ \E sd \in Seeds, ok \in BOOLEAN : pc = Idle /\ Open(sd, ok)
    \/ \E k \in Keys, v \in Vals : SetCall(k, v)
    \/ \E nw \in 0..Len(buf) : SetFlush(nw)
    \/ \E syncOk \in BOOLEAN : SetSync(syncOk)
    \/ SetIndex
    \/ SetReturn
    \/ SetKilled
    \/ \E k \in Keys : pc = Idle /\ Get(k)
    \/ \E io \in CloseIO : pc = Idle /\ Close(io[1], io[2], io[3], io[4])
    \/ pc = Idle /\ Exit
    \/ pc = Idle /\ Kill

SpecSteps == Init /\ [][NextSteps]_vars

\* The hash map taken alone: any number of buckets, several hash functions,
\* keys that collide.  acked holds, per key, the value of the last set.
IndexKeys == {<<"a">>, <<"b">>, <<"b", "a">>}

Capacities == (0..MaxCapacity) \cup {DefaultCapacity}

InitIndex ==
    /\ file = <<>>
    /\ synced = 0
    /\ buf = <<>>
    /\ fh = FALSE
    /\ \E ic \in Capacities : index = SimpleHashMap_init(ic)
    /\ seed \in 0..MaxSeed
    /\ st = "Unopened"
    /\ res = Result("none", "ok", NONE, NONE)
    /\ out = <<>>
    /\ acked = [k \in IndexKeys |-> NONE]
    /\ sessOK = TRUE
    /\ snap = NoSnap
    /\ faults = 0
    /\ stdin = <<>>
    /\ pos = 0
    /\ stdout = <<>>
    /\ pc = Idle

IndexSet(key, value) ==
    /\ index' = SimpleHashMap_set(index, seed, key, value)
    /\ acked' = [acked EXCEPT ![key] = value]
    /\ res' = Result("index_set", "ok", key, value)
    /\ UNCHANGED <<file, synced, buf, fh, seed, st, out, sessOK, snap, faults, script, pc>>

IndexGet(key) ==
    /\ res' = Result("index_get", "ok", key, SimpleHashMap_get(index, seed, key))
    /\ UNCHANGED <<file, synced, buf, fh, index, seed, st, out, acked, sessOK, snap,
                   faults, script, pc>>

NextIndex ==
    \/ \E k \in IndexKeys, v \in Vals : IndexSet(k, v)
    \/ \E k \in IndexKeys : IndexGet(k)

SpecIndex == InitIndex /\ [][NextIndex]_vars

\* One run of main on a given standard input: the loop reads the lines in
\* order and what it prints accumulates on standard output.
ScriptLines == {
    <<"S","E","T"," ","a"," ","1","\n">>,
    <<"s","e","t"," ","b"," ","2","\n">>,
    <<"G","E","T"," ","a","\n">>,
    <<" ","\t","\n">>,
    <<"E","X","I","T","\n">>
}

\* SET a 1, GET a, SET a 2, GET a, GET b, EXIT
Scenario == <<
    <<"S","E","T"," ","a"," ","1","\n">>,
    <<"G","E","T"," ","a","\n">>,
    <<"S","E","T"," ","a"," ","2","\n">>,
    <<"G","E","T"," ","a","\n">>,
    <<"G","E","T"," ","b","\n">>,
    <<"E","X","I","T","\n">>
>>

\* the records the SET lines of an input would append all fit the bounded file
RECURSIVE RecordsLen(_)
RecordsLen(lines) ==
    IF lines = <<>> THEN 0
    ELSE (IF Head(lines) \in SetLines
          THEN Len(Record(Fields[Head(lines)][2], Fields[Head(lines)][3]))
          ELSE 0) + RecordsLen(Tail(lines))

Scripts ==
    {Scenario} \cup
    {ls \in UNION {[1..n -> ScriptLines] : n \in 0..MaxScript} :
        RecordsLen(ls) <= MaxFileLen}

InitScript ==
    /\ file = <<>>
    /\ synced = 0
    /\ buf = <<>>
    /\ fh = FALSE
    /\ index = EmptyIndex
    /\ seed = 0
    /\ st = "Unopened"
    /\ res = Result("none", "ok", NONE, NONE)
    /\ out = <<>>
    /\ acked = NoAck
    /\ sessOK = TRUE
    /\ snap = NoSnap
    /\ faults = 0
    /\ stdin \in Scripts
    /\ pos = 0
    /\ stdout = <<>>
    /\ pc = Idle

\* print(): what the step printed is added to standard output
Printed == stdout' = stdout \o out' /\ UNCHANGED stdin

\* the program is started once
ScriptStart(sd, ok) ==
    /\ res.op = "none"
    /\ MainStart(sd, ok)
    /\ Printed
    /\ UNCHANGED pos

\* `for raw in sys.stdin` yields the next line
ScriptCommand ==
    /\ pos < Len(stdin)
    /\ \E io \in LineIO(stdin[pos + 1]) : MainCommand(stdin[pos + 1], io[1], io[2])
    /\ Printed
    /\ pos' = pos + 1

ScriptExit ==
    /\ pos < Len(stdin)
    /\ \E io \in CloseIO : MainExit(stdin[pos + 1], io[1], io[2], io[3], io[4])
    /\ Printed
    /\ pos' = pos + 1

\* `for raw in sys.stdin` raises instead of yielding the next line
ScriptError ==
    /\ pos < Len(stdin)
    /\ \E io \in CloseIO : MainError(io[1], io[2], io[3], io[4])
    /\ Printed
    /\ pos' = pos + 1

\* `for raw in sys.stdin` is exhausted
ScriptEOF ==
    /\ pos = Len(stdin)
    /\ \E io \in CloseIO : MainEOF(io[1], io[2], io[3], io[4])
    /\ Printed
    /\ UNCHANGED pos

NextScript ==
    \/ \E sd \in Seeds, ok \in BOOLEAN : ScriptStart(sd, ok)
    \/ ScriptCommand
    \/ ScriptExit
    \/ ScriptError
    \/ ScriptEOF

SpecScript == InitScript /\ [][NextScript]_vars

\* the interpreter keeps running the loop until main returns
SpecScriptFair == SpecScript /\ WF_vars(NextScript)

\* replay alone, on log files that hold well-formed, truncated and foreign
\* lines
LineChoices == {
    <<"S","E","T"," ","a"," ","1">>,
    <<"S","E","T"," ","a"," ","2">>,
    <<"S","E","T"," ","b"," ","1">>,
    <<" ","S","E","T","\t","b"," "," ","2"," ">>,
    <<"S","E","T"," ","b">>,
    <<"S","E","T"," ","a"," ","1"," ","2">>,
    <<"G","E","T"," ","a"," ","1">>,
    <<"s","e","t"," ","a"," ","2">>,
    <<"S","E","T","a"," ","b"," ","2">>,
    <<>>
}

RECURSIVE JoinLines(_)
JoinLines(ls) ==
    IF ls = <<>> THEN <<>> ELSE Head(ls) \o <<"\n">> \o JoinLines(Tail(ls))

\* the log files of 1..MaxLines lines, the last line with or without its
\* newline
ReplayLogs ==
    UNION {{JoinLines(ls), SubSeq(JoinLines(ls), 1, Len(JoinLines(ls)) - 1)} :
             ls \in UNION {[1..n -> LineChoices] : n \in 1..MaxLines}}

InitReplay ==
    /\ file \in ReplayLogs
    /\ synced = Len(file)
    /\ buf = <<>>
    /\ fh = FALSE
    /\ index = EmptyIndex
    /\ seed = 0
    /\ st = "Unopened"
    /\ res = Result("none", "ok", NONE, NONE)
    /\ out = <<>>
    /\ acked = NoAck
    /\ sessOK = TRUE
    /\ snap = NoSnap
    /\ faults = 0
    /\ stdin = <<>>
    /\ pos = 0
    /\ stdout = <<>>
    /\ pc = Idle

NextReplay == \E sd \in Seeds : Open(sd, TRUE)

SpecReplay == InitReplay /\ [][NextReplay]_vars

----------------------------------------------------------------------------
(* The log as the claims read it: its records, line by line *)

AllSpace(s, i, j) == \A x \in i..j : IsSpace(s[x])
NoSpace(s, i, j) == \A x \in i..j : ~IsSpace(s[x])

\* the <<key, value>> of a line of the shape  ws* SET ws+ key ws+ value ws*
\* (a set with one element), or the empty set when the line has another shape
RecordOf(line) ==
    LET n == Len(line)
        tags == {t \in 1..(n - 2) :
                   AllSpace(line, 1, t - 1) /\ SubSeq(line, t, t + 2) = TagSET}
        keysAfter(t) ==
            {p \in ((t + 4)..n) \X ((t + 4)..n) :
               /\ p[1] <= p[2] /\ p[2] < n
               /\ AllSpace(line, t + 3, p[1] - 1)
               /\ NoSpace(line, p[1], p[2])
               /\ IsSpace(line[p[2] + 1])}
        valsAfter(b) ==
            {p \in ((b + 2)..n) \X ((b + 2)..n) :
               /\ p[1] <= p[2]
               /\ AllSpace(line, b + 1, p[1] - 1)
               /\ NoSpace(line, p[1], p[2])
               /\ AllSpace(line, p[2] + 1, n)}
    IN  UNION {UNION {{<<SubSeq(line, k[1], k[2]), SubSeq(line, v[1], v[2])>> :
                         v \in valsAfter(k[2])} : k \in keysAfter(t)} : t \in tags}

WellFormed(line) == RecordOf(line) # {}

\* the records of a log, in file order
LogRecords(f) ==
    LET ls == SelectSeq(FileLines(f), WellFormed)
    IN  [i \in 1..Len(ls) |-> CHOOSE r \in RecordOf(ls[i]) : TRUE]

LogKeys(f) == {LogRecords(f)[i][1] : i \in 1..Len(LogRecords(f))}

\* the value of the last record of the log for the key, None when it has none
LogValue(f, key) ==
    LET rs == LogRecords(f)
        at == {i \in 1..Len(rs) : rs[i][1] = key}
    IN  IF at = {} THEN NONE
        ELSE rs[CHOOSE i \in at : \A j \in at : j <= i][2]

----------------------------------------------------------------------------
(* Claims *)

KeyA == <<"a">>
KeyB == <<"b">>
Val1 == <<"1">>
Val2 == <<"2">>

\* C1: durability round trip.  A store that saw only successful sets is
\* closed and a new store is opened on the same file: the new store reports,
\* for every key, the value the old store reported just before the close.
C1_RoundTrip ==
    (res.op = "open" /\ res.status = "ok" /\ snap.valid)
        => IndexGets(index, seed) = snap.gets

\* C2: last write wins.  After a successful set(k, v2), whatever was set for
\* k before, get(k) returns v2.
C2_LastWriteWins ==
    /\ st \in {"Ready", "Closed"} =>
          \A k \in Keys : acked[k] # NONE => AppendOnlyKV_get(k) = acked[k]
    /\ (res.op = "get" /\ acked[res.key] # NONE) => res.val = acked[res.key]

\* a get of a returns 2 after set(a, 1) and then set(a, 2)
C2_Witness ==
    /\ res.op = "get" /\ res.key = KeyA /\ res.val = Val2
    /\ acked[KeyA] = Val2
    /\ file = Record(KeyA, Val1) \o Record(KeyA, Val2)

\* C3: index/log agreement.  In every state after replay, failed sets
\* included, the index holds for every key of the log the value of its last
\* record, and holds no key the log has no record of.
C3_IndexAgreesWithLog ==
    st = "Ready" =>
        \A k \in StoredKeys(index) \cup LogKeys(file) :
            AppendOnlyKV_get(k) = LogValue(file, k)

\* C4: a failed set leaves no partial state.  When set fails, the log file and
\* the index are what they were before the call, and nothing of the record is
\* left for a later operation to write.
C4_FailedSetLeavesNothing ==
    [][(res'.op = "set" /\ res'.status = "DataFileWriteError")
          => (file' = file /\ index' = index /\ buf' = buf)]_vars

\* C5: crash safety of reads.  Every value a get returns comes from a record
\* in the synced part of the log, the part a crash leaves.
C5_ReadsAreDurable ==
    (res.op = "get" /\ res.val # NONE) =>
        \E i \in 1..Len(LogRecords(Prefix(file, synced))) :
            LogRecords(Prefix(file, synced))[i] = <<res.key, res.val>>

\* C6: a set on a closed store fails with the not-open error, which is not
\* the write error, and changes neither the log nor the index.
C6_SetAfterCloseFails ==
    [][(st = "Closed" /\ res'.op = "set")
          => /\ res'.status = "RuntimeError"
             /\ res'.status # "DataFileWriteError"
             /\ file' = file /\ buf' = buf /\ synced' = synced
             /\ index' = index /\ acked' = acked]_vars

\* a set was refused on a closed store whose log and index are not empty
C6_Witness ==
    /\ st = "Closed" /\ res.op = "set" /\ res.status = "RuntimeError"
    /\ file = Record(KeyA, Val1)
    /\ AppendOnlyKV_get(KeyA) = Val1

TruncatedLog == <<"S","E","T"," ","a"," ","1","\n","S","E","T"," ","b">>

\* C7: malformed-line tolerance.  Replay does not fail, and its index is the
\* one that replaying only the well-formed lines, in their order, gives; the
\* log `SET a 1`, `SET b` replays to exactly {a: 1}.
C7_ReplaySkipsMalformed ==
    st = "Ready" =>
        /\ res.status = "ok"
        /\ index = ReplayLines(EmptyIndex, seed, SelectSeq(FileLines(file), WellFormed))
        /\ file \in {TruncatedLog, TruncatedLog \o <<"\n">>}
              => IndexPairs(index) = {<<KeyA, Val1>>}

\* the log `SET a 1`, `SET b` has been replayed
C7_Witness ==
    /\ st = "Ready" /\ res.op = "open"
    /\ file = TruncatedLog
    /\ IndexPairs(index) = {<<KeyA, Val1>>}

\* C8: absence.  A GET of a key that no set of this store succeeded for and
\* that the log has no well-formed record of reports absent, and the command
\* loop prints an empty line for it.
C8_AbsentKeyPrintsEmptyLine ==
    (/\ res.op = "main_get" /\ res.status = "ok"
     /\ acked[res.key] = NONE
     /\ LogValue(file, res.key) = NONE)
        => (res.val = NONE /\ out = << <<>> >>)

\* the SET command lines that do not carry exactly two arguments
BadSetLines ==
    {raw \in InputLines :
        /\ Fields[raw] # <<>>
        /\ Upper(Fields[raw][1]) = TagSET
        /\ ~(/\ Len(Fields[raw]) = 3
             /\ valid_token(Fields[raw][2]) /\ valid_token(Fields[raw][3]))}

\* C9: validation rejection.  A SET command line without exactly two
\* arguments, or with a key or value that is no token, prints ERR and leaves
\* the index and the log as they were.
C9_InvalidSetRejected ==
    [][\A raw \in BadSetLines :
          (\E io \in LineIO(raw) : MainCommand(raw, io[1], io[2]))
             => /\ out' = <<ERR>>
                /\ file' = file /\ buf' = buf /\ synced' = synced
                /\ index' = index]_vars

\* a SET command line was rejected while the log and the index held a record
C9_Witness ==
    /\ res.op = "main_set" /\ res.status = "invalid" /\ out = <<ERR>>
    /\ file = Record(KeyA, Val1)
    /\ AppendOnlyKV_get(KeyA) = Val1

\* C10: the log is append-only.  Over open, set, get, close and reopen the
\* log before a step is a prefix of the log after it, and a successful
\* set(k, v) extends it by exactly the line `SET k v`.
C10_AppendOnly ==
    [][/\ res'.status # "power" => IsPrefix(file, file')
       /\ \A k \in Keys, v \in Vals :
             (\E nw \in 0..MaxFileLen : Set(k, v, nw, TRUE) /\ res'.status = "ok")
                => file' = file \o Record(k, v)]_vars

\* C11: end-to-end scenario.  Started on an empty log and meeting no I/O
\* failure, the input SET a 1, GET a, SET a 2, GET a, GET b, EXIT (the spec's
\* x, y, 10, 20 written a, b, 1, 2) prints exactly the lines `1`, `2` and an
\* empty line, and leaves a log of exactly the two lines `SET a 1`, `SET a 2`.
C11_Scenario ==
    (stdin = Scenario /\ res.op = "main_exit" /\ res.status = "ok" /\ faults = 0)
        => /\ stdout = <<Val1, Val2, <<>>>>
           /\ FileLines(file) = <<Record(KeyA, Val1), Record(KeyA, Val2)>>
           /\ file = Record(KeyA, Val1) \o Record(KeyA, Val2)

\* the scenario ran to its EXIT
C11_Witness ==
    /\ stdin = Scenario /\ pos = Len(Scenario)
    /\ res.op = "main_exit" /\ res.status = "ok" /\ faults = 0
    /\ stdout = <<Val1, Val2, <<>>>>

\* C12: the store is closed on every exit path.  A run of main that opened
\* the store reaches the end of main, by EXIT, by end of input or by an error
\* raised in the loop; there the store holds no file handle, and unless the
\* close itself failed everything written is flushed and synced.
C12_ClosedOnEveryExit ==
    /\ [](res.op = "main_exit" =>
            /\ ~fh
            /\ res.status \in {"ok", "ValueError"} => (buf = <<>> /\ synced = Len(file)))
    /\ (st = "Ready") ~> (res.op = "main_exit" /\ ~fh)

\* main left the loop by an error after a SET, and the store was closed
C12_Witness ==
    /\ res.op = "main_exit" /\ res.status = "ValueError" /\ out = <<ERR>>
    /\ ~fh /\ pos < Len(stdin)
    /\ file = Record(KeyA, Val1) /\ synced = Len(file)

\* the input lines that are a well-formed SET <key> <value>, a well-formed
\* GET <key> or EXIT, the command word spelled as the command surface spells it
IsCommand(raw) ==
    LET parts == Fields[raw]
    IN  \/ Len(parts) = 3 /\ parts[1] = TagSET
           /\ valid_token(parts[2]) /\ valid_token(parts[3])
        \/ Len(parts) = 2 /\ parts[1] = TagGET /\ valid_token(parts[2])
        \/ parts = <<TagEXIT>>

OtherLines == {raw \in InputLines : ~IsCommand(raw)}

\* C13: every input line that is no well-formed SET, GET or EXIT (another
\* command word, a command word in another case, a wrong number of arguments,
\* a blank line) prints exactly one ERR and changes neither the index nor the
\* log.
C13_OtherLinesPrintERR ==
    [][\A raw \in OtherLines :
          (\/ \E io \in LineIO(raw) : MainCommand(raw, io[1], io[2])
           \/ \E io \in CloseIO : MainExit(raw, io[1], io[2], io[3], io[4]))
             => /\ out' = <<ERR>>
                /\ file' = file /\ buf' = buf /\ synced' = synced
                /\ index' = index]_vars

\* C14: lifecycle gating.  A store becomes Ready only by being opened and
\* Closed only from Ready, and set and get are valid in Ready only: on a closed
\* store a get, like a set, fails with the not-open error and returns no value
\* of the index.
C14_LifecycleGating ==
    [][/\ (st' = "Ready" /\ st # "Ready") => res'.op = "open"
       /\ (st' = "Closed" /\ st # "Closed") => (st = "Ready" /\ res'.op = "close")
       /\ (st = "Closed" /\ res'.op \in {"set", "get"})
             => (res'.status = "RuntimeError" /\ res'.val = NONE)]_vars

\* the statements of set in the order they may complete
SetOrder ==
    {<<"idle", "written">>, <<"written", "flushed">>, <<"flushed", "synced">>,
     <<"synced", "indexed">>, <<"indexed", "idle">>}

\* C15: ordering inside set.  The statements of a set complete in the order
\* write, flush, sync, index update, return, unless the set raises or the
\* process dies; the index is updated only after the sync has completed (the
\* whole record is then in the file and the file is synced to its end), and
\* success is returned only after the index update.
C15_SetOrdering ==
    [][/\ (pc'.at # pc.at /\ res'.status \notin {"DataFileWriteError", "killed"})
             => <<pc.at, pc'.at>> \in SetOrder
       /\ (pc.at # "idle" /\ st' = st /\ index' # index)
             => /\ pc.at = "synced"
                /\ buf = <<>> /\ synced = Len(file)
                /\ Suffix(file, Len(file) - Len(Record(pc.key, pc.val)))
                      = Record(pc.key, pc.val)
       /\ (res' # res /\ res'.op = "set" /\ res'.status = "ok")
             => /\ pc.at = "indexed"
                /\ AppendOnlyKV_get(pc.key) = pc.val
                /\ buf = <<>> /\ synced = Len(file)]_vars

\* a set stands between its index update and its return
C15_Witness ==
    /\ pc = [at |-> "indexed", key |-> KeyB, val |-> Val2]
    /\ AppendOnlyKV_get(KeyB) = Val2
    /\ file = Record(KeyA, Val1) \o Record(KeyB, Val2) /\ synced = Len(file)

KeyBA == <<"b", "a">>

\* C16: the chained hash table refines a key-to-value map.  For every bucket
\* count and hash function tried, after any sequence of sets get(k) is the
\* value of the last set of k, or absent when k was never set, also when all
\* keys share one bucket.
C16_RefinesMap ==
    /\ \A k \in DOMAIN acked : SimpleHashMap_get(index, seed, k) = acked[k]
    /\ res.op = "index_get" => res.val = acked[res.key]

\* three keys collide in one bucket of a table of several buckets, and a get
\* returned the overwritten value of the second
C16_Witness ==
    /\ index.cap > 1
    /\ \E i \in DOMAIN index.buckets :
          /\ Len(index.buckets[i]) = 3
          /\ index.buckets[i][2] = <<KeyB, Val2>>
    /\ res = Result("index_get", "ok", KeyB, Val2)
    /\ acked[KeyBA] = Val1

\* every pair of the map lies in the bucket its key hashes to, and no key
\* occurs in two pairs
IndexWellFormed(m, sd) ==
    \A i \in DOMAIN m.buckets : \A j \in 1..Len(m.buckets[i]) :
        /\ SimpleHashMap_index(m, sd, m.buckets[i][j][1]) = i
        /\ \A i2 \in DOMAIN m.buckets : \A j2 \in 1..Len(m.buckets[i2]) :
              m.buckets[i][j][1] = m.buckets[i2][j2][1] => (i = i2 /\ j = j2)

\* C17: structure of the index.  After any sequence of sets every key occurs
\* in at most one pair, in the bucket its hash selects, and size is the number
\* of distinct keys stored; a set of a present key replaces the value of its
\* pair where it stands and keeps size, a set of a new key appends one pair to
\* its bucket and adds 1 to size; no other bucket changes.
C17_IndexStructure ==
    /\ [](IndexWellFormed(index, seed) /\ index.size = Cardinality(StoredKeys(index)))
    /\ [][\A k \in IndexKeys, v \in Vals : IndexSet(k, v) =>
            LET idx == SimpleHashMap_index(index, seed, k)
                old == Bucket(index, idx)
                new == Bucket(index', idx)
            IN  /\ \A i \in 0..(index.cap - 1) :
                      i # idx => Bucket(index', i) = Bucket(index, i)
                /\ index'.cap = index.cap
                /\ IF k \in StoredKeys(index)
                   THEN /\ index'.size = index.size
                        /\ Len(new) = Len(old)
                        /\ \A j \in 1..Len(old) :
                              new[j] = IF old[j][1] = k THEN <<k, v>> ELSE old[j]
                   ELSE /\ index'.size = index.size + 1
                        /\ new = Append(old, <<k, v>>)]_vars

\* a key that stands first in a bucket of three was overwritten in place
C17_Witness ==
    /\ res = Result("index_set", "ok", KeyA, Val2)
    /\ index.size = 3
    /\ \E i \in DOMAIN index.buckets :
          /\ Len(index.buckets[i]) = 3
          /\ index.buckets[i][1] = <<KeyA, Val2>>

\* C18: frame of the read-only operations.  A get changes neither the index
\* nor the log and does no file I/O (file, buffer, synced length and handle
\* stay as they are); opening a store leaves the log as it is, and so does
\* closing a store on which no set was called since it was opened.
C18_ReadOnlyFrame ==
    [][/\ res'.op = "get" =>
             /\ index' = index
             /\ file' = file /\ buf' = buf /\ synced' = synced /\ fh' = fh
       /\ res'.op = "open" => file' = file
       /\ (res'.op = "close" /\ st = "Ready" /\ acked = NoAck /\ sessOK)
             => file' = file]_vars

\* a store opened on a log of one record was closed without a set
C18_Witness ==
    /\ res.op = "close" /\ st = "Closed"
    /\ acked = NoAck /\ sessOK
    /\ snap.gets = {<<KeyA, Val1>>}
    /\ file = Record(KeyA, Val1)

\* the log ends in a line without its newline
PartialTail(f) == f # <<>> /\ f[Len(f)] # "\n"

\* C19: recovery after a truncated tail.  On a store opened on a log whose
\* last line has no newline, a set that is acknowledged, the first one
\* included, is recovered by the next replay: a store opened on the log as the
\* set left it reports the new value, and every key the index reports keeps
\* its value.
C19_SetAfterPartialTailRecovered ==
    [][(/\ st = "Ready" /\ sessOK /\ PartialTail(file)
        /\ res'.op = "set" /\ res'.status = "ok")
          => \A sd \in Seeds :
                IndexGets(index', seed) \subseteq IndexGets(Replay(sd, file'), sd)]_vars

\* C20: close always ends in Closed.  Whether close succeeds or raises the
\* close error, the store holds no file handle afterwards; a set on the closed
\* store fails with the not-open error; a close of a closed store raises
\* nothing and leaves the log as it is.
C20_CloseAlwaysCloses ==
    /\ [](st = "Closed" => ~fh)
    /\ [][/\ res'.op = "close" =>
               /\ st' = "Closed" /\ ~fh'
               /\ res'.status \in {"ok", "DataFileCloseError"}
          /\ (res'.op = "close" /\ st = "Closed") =>
               /\ res'.status = "ok"
               /\ file' = file /\ synced' = synced /\ buf' = buf
          /\ (res'.op = "set" /\ st = "Closed") => res'.status = "RuntimeError"]_vars

\* a close raised the close error and left the store closed
C20_Witness ==
    /\ res.op = "close" /\ res.status = "DataFileCloseError"
    /\ st = "Closed" /\ ~fh
    /\ file = Record(KeyA, Val1)

====
